---- MODULE Spec2Model ----
(***************************************************************************)
(* Model of src/splitter.py (class VideoSplitter): the clip boundary       *)
(* calculator, the SRT parser and the caption aligner.                     *)
(*                                                                         *)
(* Times.  The code computes with Python floats holding seconds.  The      *)
(* model computes with integers holding ticks: one second is Unit ticks,   *)
(* and Unit is a multiple of 1000 and of every split count the bounded     *)
(* inputs can produce, so "/ 1000" and "/ num_splits" are exact.  Float    *)
(* rounding is not modelled.                                               *)
(***************************************************************************)
EXTENDS Integers, Sequences, FiniteSets, TLC

\* ------------------------------------------------------------------ bounds
\* longest total duration, in seconds, besides the 125 s scenario
MaxTotal == 4
\* largest window value, in seconds, besides the 30 s / 60 s defaults
MaxWindow == 3
\* most non-silent chunks the detector reports
MaxChunks == 2

\* -------------------------------------------------------------- time units
RECURSIVE Gcd(_, _)
Gcd(a, b) == IF b = 0 THEN a ELSE Gcd(b, a % b)

RECURSIVE LcmUpTo(_)
LcmUpTo(n) == IF n <= 1 THEN 1 ELSE (LcmUpTo(n - 1) * n) \div Gcd(LcmUpTo(n - 1), n)

\* ticks per second: exact for milliseconds and for every split count
\* (a chunk is at most MaxTotal seconds and a window at least 1 second)
Unit == 1000 * LcmUpTo(MaxTotal)

Sec(s) == s * Unit

\* chunk_end / 1000, chunk_duration = (chunk_end - chunk_start) / 1000
MsToSeconds(ms) == ms * (Unit \div 1000)

Min(a, b) == IF a <= b THEN a ELSE b
Max(a, b) == IF a >= b THEN a ELSE b

\* np.ceil(a / b) for a >= 0, b > 0
Ceil(a, b) == (a + b - 1) \div b

\* ---------------------------------------------------------------- defaults
\* clip_duration: Tuple[int, int] = (30, 60)
DefaultMinDuration == 30
DefaultMaxDuration == 60

VARIABLES
    pc,                 \* position of split_video
    total_duration,     \* video.duration, in ticks
    min_duration,       \* clip_duration[0], in ticks
    max_duration,       \* clip_duration[1], in ticks
    scene_boundaries,   \* what _detect_scene_changes handed back (ticks)
    audio_readable,     \* FALSE when AudioSegment.from_file / detect_nonsilent raises
    non_silent_chunks,  \* what detect_nonsilent reports, <<start, end>> in ms
    boundaries,         \* clip_boundaries of split_video
    strategy,           \* the branch of _calculate_clip_boundaries taken
    outcome,            \* "none", "returned" or the exception raised
    cpc,                \* position of _add_captions_to_clip
    srt_readable,       \* FALSE when opening or reading the SRT file raises
    srt_blocks,         \* content.strip().split('\n\n'), each block as lines
    start_time,         \* start of the clip, in ticks
    clip_duration,      \* clip.duration, in ticks
    subtitles,          \* what _parse_srt_file returned
    clip_subtitles,     \* the adjusted entries of the clip
    caption_style,      \* the style name handed to _add_captions_to_clip
    text_clips,         \* the text clips created for the clip
    clip_index,         \* i of the for loop of split_video (clips handled)
    clips_info,         \* the clip_info records collected by split_video
    printed,            \* the clip numbers of the "Error processing clip" lines
    aligned,            \* per written clip, the adjusted entries it was captioned with
    result              \* what split_video returned, <<>> before it returns

bvars == <<pc, total_duration, min_duration, max_duration, scene_boundaries,
           audio_readable, non_silent_chunks, boundaries, strategy, outcome>>

cvars == <<cpc, srt_readable, srt_blocks, start_time, clip_duration,
           subtitles, clip_subtitles, caption_style, text_clips>>

svars == <<clip_index, clips_info, printed, result, aligned>>

vars == <<bvars, cvars, svars>>

\* ------------------------------------------------- _detect_silence_boundaries
\* the sub-intervals of one long chunk (the inner for loop)
SplitLongChunk(current_start, split_duration, num_splits) ==
    [i \in 1..num_splits |->
        LET start == current_start + ((i - 1) * split_duration)
            end   == start + split_duration
        IN  <<start, end>>]

\* the for loop over non_silent_chunks, from chunk k on
RECURSIVE SilenceLoop(_, _, _, _, _, _)
SilenceLoop(chunks, k, bnds, current_start, mn, mx) ==
    IF k > Len(chunks) THEN bnds
    ELSE
      LET chunk_start    == chunks[k][1]
          chunk_end      == chunks[k][2]
          chunk_duration == MsToSeconds(chunk_end - chunk_start)
      IN  IF chunk_duration >= mn
          THEN IF chunk_duration <= mx
               THEN SilenceLoop(chunks, k + 1,
                        Append(bnds, <<current_start, MsToSeconds(chunk_end)>>),
                        MsToSeconds(chunk_end), mn, mx)
               ELSE LET num_splits     == Ceil(chunk_duration, mx)
                        split_duration == chunk_duration \div num_splits
                        parts == SplitLongChunk(current_start, split_duration,
                                                num_splits)
                    IN  SilenceLoop(chunks, k + 1, bnds \o parts,
                                    parts[num_splits][2], mn, mx)
          ELSE SilenceLoop(chunks, k + 1, bnds, current_start, mn, mx)

\* an exception while reading the audio is swallowed and gives []
_detect_silence_boundaries(readable, chunks, mn, mx) ==
    IF ~readable THEN <<>>
    ELSE SilenceLoop(chunks, 1, <<>>, 0, mn, mx)

\* ------------------------------------------------ _calculate_equal_boundaries
\* variant: a short step with no predecessor is dropped instead of emitted
RECURSIVE EqualLoopDropShort(_, _, _, _, _)
EqualLoopDropShort(bnds, start, total, mn, mx) ==
    IF ~(start < total) THEN bnds
    ELSE
      LET end == Min(start + mx, total)
      IN  IF (end - start) < mn
          THEN IF Len(bnds) > 0
               THEN LET prev == bnds[Len(bnds)]
                    IN  EqualLoopDropShort(
                            Append(SubSeq(bnds, 1, Len(bnds) - 1),
                                   <<prev[1], end>>),
                            end, total, mn, mx)
               ELSE EqualLoopDropShort(bnds, end, total, mn, mx)
          ELSE EqualLoopDropShort(Append(bnds, <<start, end>>), end, total,
                                  mn, mx)

\* variant: the short tail is emitted as its own interval, never merged
RECURSIVE EqualLoopNoMerge(_, _, _, _, _)
EqualLoopNoMerge(bnds, start, total, mn, mx) ==
    IF ~(start < total) THEN bnds
    ELSE
      LET end == Min(start + mx, total)
      IN  EqualLoopNoMerge(Append(bnds, <<start, end>>), end, total, mn, mx)

\* variant: the merge puts the previous interval back unchanged
RECURSIVE EqualLoopKeepPrevEnd(_, _, _, _, _)
EqualLoopKeepPrevEnd(bnds, start, total, mn, mx) ==
    IF ~(start < total) THEN bnds
    ELSE
      LET end == Min(start + mx, total)
      IN  IF (end - start) < mn /\ Len(bnds) > 0
          THEN LET prev == bnds[Len(bnds)]
               IN  EqualLoopKeepPrevEnd(
                       Append(SubSeq(bnds, 1, Len(bnds) - 1),
                              <<prev[1], prev[2]>>),
                       end, total, mn, mx)
          ELSE EqualLoopKeepPrevEnd(Append(bnds, <<start, end>>), end, total,
                                    mn, mx)

\* the while loop; terminates because mx > 0 (guarded by the inputs)
RECURSIVE EqualLoop(_, _, _, _, _)
EqualLoop(bnds, start, total, mn, mx) ==
    IF ~(start < total) THEN bnds
    ELSE
      LET end == Min(start + mx, total)
      IN  IF (end - start) < mn /\ Len(bnds) > 0
          THEN LET prev == bnds[Len(bnds)]
               IN  EqualLoop(Append(SubSeq(bnds, 1, Len(bnds) - 1),
                                    <<prev[1], end>>),
                             end, total, mn, mx)
          ELSE EqualLoop(Append(bnds, <<start, end>>), end, total, mn, mx)

_calculate_equal_boundaries(total, mn, mx) == EqualLoop(<<>>, 0, total, mn, mx)

\* ------------------------------------------------------------------- inputs
WindowValues == (1..MaxWindow) \cup {DefaultMinDuration, DefaultMaxDuration}

\* <<total, min, max>> in seconds: short videos (with the two non-positive
\* totals) under every window, and the 125 s video under the default window
DurationInputs ==
    { <<t, mn, mx>> : t \in -1..MaxTotal, mn \in WindowValues, mx \in WindowValues }
    \cup
    { <<125, mn, mx>> : mn \in {DefaultMinDuration, DefaultMaxDuration},
                        mx \in {DefaultMinDuration, DefaultMaxDuration} }

\* scene timestamps as parsed from the detector output (unsorted, in ticks);
\* the calculator is modelled for every list the detector can hand back
SceneInputs == { <<>>, <<Sec(1)>>, <<Sec(2), Sec(1)>> }

\* detect_nonsilent reports sorted, disjoint chunks separated by at least
\* min_silence_len milliseconds of silence
min_silence_len == 1000

\* chunk ends on a half-second grid within `limit` seconds
ChunkPoints(limit) == { 500 * h : h \in 0..(2 * limit) }

\* the chunks that may follow the chunks cs
NextChunks(cs, limit) ==
    { c \in ChunkPoints(limit) \X ChunkPoints(limit) :
        /\ c[1] < c[2]
        /\ Len(cs) > 0 => c[1] - cs[Len(cs)][2] >= min_silence_len }

\* the chunk lists of at most n chunks
RECURSIVE ChunkSeqs(_, _)
ChunkSeqs(limit, n) ==
    IF n = 0 THEN { <<>> }
    ELSE LET shorter == ChunkSeqs(limit, n - 1)
         IN  shorter \cup
             UNION { { Append(cs, c) : c \in NextChunks(cs, limit) } :
                       cs \in { x \in shorter : Len(x) = n - 1 } }

\* the audio track is as long as the video (at most MaxTotal seconds of it
\* carry chunks)
ChunkInputs(total) == ChunkSeqs(Min(Max(total, 0), MaxTotal), MaxChunks)

\* --------------------------------------------------------------- split_video
\* the state in which split_video is about to call _calculate_clip_boundaries
Init ==
    /\ pc = "calc"
    /\ \E d \in DurationInputs :
          /\ total_duration = Sec(d[1])
          /\ min_duration = Sec(d[2])
          /\ max_duration = Sec(d[3])
    /\ scene_boundaries \in SceneInputs
    /\ audio_readable \in BOOLEAN
    /\ non_silent_chunks \in ChunkInputs(total_duration \div Unit)
    /\ (~audio_readable => non_silent_chunks = <<>>)
    /\ boundaries = <<>>
    /\ strategy = "none"
    /\ outcome = "none"
    /\ cpc = "idle"
    /\ srt_readable = FALSE
    /\ srt_blocks = <<>>
    /\ start_time = 0
    /\ clip_duration = 0
    /\ subtitles = <<>>
    /\ clip_subtitles = <<>>
    /\ caption_style = "standard"
    /\ text_clips = <<>>
    /\ clip_index = 0
    /\ clips_info = <<>>
    /\ printed = <<>>
    /\ result = <<>>
    /\ aligned = <<>>

\* the value _detect_silence_boundaries returns for the current inputs
silence_boundaries ==
    _detect_silence_boundaries(audio_readable, non_silent_chunks,
                               min_duration, max_duration)

\* Strategy 1: scene_boundaries is non-empty, so _merge_scenes_to_duration is
\* called; VideoSplitter defines no such method and the attribute lookup
\* raises AttributeError, which split_video does not catch.
SceneStrategy ==
    /\ pc = "calc"
    /\ scene_boundaries # <<>>
    /\ strategy' = "scene"
    /\ outcome' = "AttributeError"
    /\ pc' = "done"
    /\ UNCHANGED <<total_duration, min_duration, max_duration, scene_boundaries,
                   audio_readable, non_silent_chunks, boundaries>>
    /\ UNCHANGED <<cvars, svars>>

\* Strategy 2: no scene signal and the silence detector produced intervals
SilenceStrategy ==
    /\ pc = "calc"
    /\ scene_boundaries = <<>>
    /\ silence_boundaries # <<>>
    /\ boundaries' = silence_boundaries
    /\ strategy' = "silence"
    /\ outcome' = "returned"
    /\ pc' = "done"
    /\ UNCHANGED <<total_duration, min_duration, max_duration, scene_boundaries,
                   audio_readable, non_silent_chunks>>
    /\ UNCHANGED <<cvars, svars>>

\* Strategy 3: equal split
EqualStrategy ==
    /\ pc = "calc"
    /\ scene_boundaries = <<>>
    /\ silence_boundaries = <<>>
    /\ boundaries' = _calculate_equal_boundaries(total_duration, min_duration,
                                                 max_duration)
    /\ strategy' = "equal"
    /\ outcome' = "returned"
    /\ pc' = "done"
    /\ UNCHANGED <<total_duration, min_duration, max_duration, scene_boundaries,
                   audio_readable, non_silent_chunks>>
    /\ UNCHANGED <<cvars, svars>>

\* ------------------------------------------------------------- _create_clip
\* Strings the code builds or takes apart are sequences of one-character
\* strings.
Digits == {"0", "1", "2", "3", "4", "5", "6", "7", "8", "9"}

DigitValue ==
    ("0" :> 0) @@ ("1" :> 1) @@ ("2" :> 2) @@ ("3" :> 3) @@ ("4" :> 4) @@
    ("5" :> 5) @@ ("6" :> 6) @@ ("7" :> 7) @@ ("8" :> 8) @@ ("9" :> 9)

\* the decimal digits of n >= 0
RECURSIVE ToDigits(_)
ToDigits(n) ==
    LET d == CHOOSE c \in Digits : DigitValue[c] = n % 10
    IN  IF n < 10 THEN <<d>> ELSE Append(ToDigits(n \div 10), d)

\* f"{clip_number:03d}": zero-padded to at least three digits
Format03d(n) ==
    LET ds == ToDigits(n)
    IN  IF Len(ds) >= 3 THEN ds
        ELSE [k \in 1..(3 - Len(ds)) |-> "0"] \o ds

\* round(x, 2): to the nearest hundredth of a second, a tie to the even one
Round2(x) ==
    LET q    == Unit \div 100
        r    == x % q
        down == x - r
    IN  IF 2 * r < q THEN down
        ELSE IF 2 * r > q THEN down + q
        ELSE IF (down \div q) % 2 = 0 THEN down ELSE down + q

\* the clip_info of a clip that was written (size and resolution come from
\* the encoder and are left out); name holds the digits of the file name
ClipInfo(start, end, clip_number) ==
    [name       |-> Format03d(clip_number),
     duration   |-> Round2(end - start),
     start_time |-> Round2(start),
     end_time   |-> Round2(end)]

\* ============================================================== captions
\* str.split(sep): the parts of s between the occurrences of sep
RECURSIVE SplitFrom(_, _, _, _)
SplitFrom(s, sep, cur, i) ==
    IF i > Len(s) THEN <<cur>>
    ELSE IF /\ i + Len(sep) - 1 <= Len(s)
            /\ SubSeq(s, i, i + Len(sep) - 1) = sep
         THEN <<cur>> \o SplitFrom(s, sep, <<>>, i + Len(sep))
         ELSE SplitFrom(s, sep, Append(cur, s[i]), i + 1)

Split(s, sep) == SplitFrom(s, sep, <<>>, 1)

\* int(s) succeeds on a non-empty run of digits (the modelled lines hold no
\* sign, blank or underscore)
IsInt(s) == Len(s) > 0 /\ \A i \in 1..Len(s) : s[i] \in Digits

RECURSIVE IntValue(_)
IntValue(s) ==
    IF Len(s) = 0 THEN 0
    ELSE (10 * IntValue(SubSeq(s, 1, Len(s) - 1))) + DigitValue[s[Len(s)]]

\* _time_to_seconds: any failure of the unpacking or of int() gives 0.0
_time_to_seconds(time_str) ==
    LET hms == Split(time_str, <<":">>)
    IN  IF Len(hms) # 3 THEN 0
        ELSE LET sms == Split(hms[3], <<",">>)
             IN  IF Len(sms) # 2 THEN 0
                 ELSE IF ~(IsInt(hms[1]) /\ IsInt(hms[2]) /\ IsInt(sms[1])
                           /\ IsInt(sms[2]))
                 THEN 0
                 ELSE Sec((IntValue(hms[1]) * 3600) + (IntValue(hms[2]) * 60)
                          + IntValue(sms[1]))
                      + MsToSeconds(IntValue(sms[2]))

\* ' '.join(lines)
RECURSIVE Join(_)
Join(lines) ==
    IF Len(lines) = 0 THEN ""
    ELSE IF Len(lines) = 1 THEN lines[1]
    ELSE lines[1] \o " " \o Join(Tail(lines))

\* A block is its lines: lines[0] is the counter line, lines[1] is
\* block.time_line and lines[2:] is block.text.
NumLines(block) == 2 + Len(block.text)

Arrow == <<" ", "-", "-", ">", " ">>

\* the for loop over blocks, from block k on; an exception raised inside the
\* loop is caught outside it, so the loop ends with what was collected
RECURSIVE ParseLoop(_, _, _)
ParseLoop(blocks, k, subs) ==
    IF k > Len(blocks) THEN subs
    ELSE
      LET block == blocks[k]
      IN  IF NumLines(block) >= 3
          THEN LET parts == Split(block.time_line, Arrow)
               IN  IF Len(parts) # 2
                   THEN subs
                   ELSE ParseLoop(blocks, k + 1,
                            Append(subs,
                                   [start |-> _time_to_seconds(parts[1]),
                                    end   |-> _time_to_seconds(parts[2]),
                                    text  |-> Join(block.text)]))
          ELSE ParseLoop(blocks, k + 1, subs)

_parse_srt_file(readable, blocks) ==
    IF ~readable THEN <<>> ELSE ParseLoop(blocks, 1, <<>>)

\* ------------------------------------------------------------ style tables
\* dict.get(key, default)
Get(table, key, default) ==
    IF key \in DOMAIN table THEN table[key] ELSE default

\* Python's None
None == "None"

\* variant: the fallback font size is the minimal row's
_get_font_size_default24(style) ==
    LET sizes == ("standard" :> 28) @@ ("minimal" :> 24) @@ ("bold" :> 32) @@
                 ("outline" :> 30)
    IN  Get(sizes, style, 24)

_get_font_size(style) ==
    LET sizes == ("standard" :> 28) @@ ("minimal" :> 24) @@ ("bold" :> 32) @@
                 ("outline" :> 30)
    IN  Get(sizes, style, 28)

\* variant: the minimal row has no colour of its own
_get_text_color_no_minimal(style) ==
    LET colors == ("standard" :> "white") @@ ("bold" :> "white") @@
                  ("outline" :> "white")
    IN  Get(colors, style, "white")

_get_text_color(style) ==
    LET colors == ("standard" :> "white") @@ ("minimal" :> "lightgray") @@
                  ("bold" :> "white") @@ ("outline" :> "white")
    IN  Get(colors, style, "white")

_get_stroke_color(style) ==
    LET colors == ("standard" :> "black") @@ ("minimal" :> None) @@
                  ("bold" :> "black") @@ ("outline" :> "black")
    IN  Get(colors, style, "black")

_get_stroke_width(style) ==
    LET widths == ("standard" :> 1) @@ ("minimal" :> 0) @@ ("bold" :> 2) @@
                  ("outline" :> 3)
    IN  Get(widths, style, 1)

_get_font(style) ==
    LET fonts == ("standard" :> "Arial") @@ ("minimal" :> "Helvetica") @@
                 ("bold" :> "Arial-Bold") @@ ("outline" :> "Arial")
    IN  Get(fonts, style, "Arial")

\* variant: the start of an adjusted entry is shifted but not clamped
RECURSIVE FilterLoopNoClamp(_, _, _, _, _)
FilterLoopNoClamp(subs, k, st, dur, out) ==
    IF k > Len(subs) THEN out
    ELSE
      LET sub == subs[k]
      IN  IF sub.end > st /\ sub.start < (st + dur)
          THEN FilterLoopNoClamp(subs, k + 1, st, dur,
                   Append(out, [text  |-> sub.text,
                                start |-> sub.start - st,
                                end   |-> Min(dur, sub.end - st)]))
          ELSE FilterLoopNoClamp(subs, k + 1, st, dur, out)

\* variant: the overlap test is closed, so touching entries are kept
RECURSIVE FilterLoopClosed(_, _, _, _, _)
FilterLoopClosed(subs, k, st, dur, out) ==
    IF k > Len(subs) THEN out
    ELSE
      LET sub == subs[k]
      IN  IF sub.end >= st /\ sub.start <= (st + dur)
          THEN FilterLoopClosed(subs, k + 1, st, dur,
                   Append(out, [text  |-> sub.text,
                                start |-> Max(0, sub.start - st),
                                end   |-> Min(dur, sub.end - st)]))
          ELSE FilterLoopClosed(subs, k + 1, st, dur, out)

\* variant: the end of an adjusted entry is shifted but not clamped
RECURSIVE FilterLoopEndUnclamped(_, _, _, _, _)
FilterLoopEndUnclamped(subs, k, st, dur, out) ==
    IF k > Len(subs) THEN out
    ELSE
      LET sub == subs[k]
      IN  IF sub.end > st /\ sub.start < (st + dur)
          THEN FilterLoopEndUnclamped(subs, k + 1, st, dur,
                   Append(out, [text  |-> sub.text,
                                start |-> Max(0, sub.start - st),
                                end   |-> sub.end - st]))
          ELSE FilterLoopEndUnclamped(subs, k + 1, st, dur, out)

\* the filter loop of _add_captions_to_clip, from entry k on
RECURSIVE FilterLoop(_, _, _, _, _)
FilterLoop(subs, k, st, dur, out) ==
    IF k > Len(subs) THEN out
    ELSE
      LET sub == subs[k]
      IN  IF sub.end > st /\ sub.start < (st + dur)
          THEN FilterLoop(subs, k + 1, st, dur,
                   Append(out, [text  |-> sub.text,
                                start |-> Max(0, sub.start - st),
                                end   |-> Min(dur, sub.end - st)]))
          ELSE FilterLoop(subs, k + 1, st, dur, out)

\* ------------------------------------------------- the loop of split_video
\* one pass of the for loop of split_video: _create_clip either returns the
\* clip_info, which is appended, or raises, which is printed and skipped.
\* A clip that is written was captioned with the entries of the transcript
\* that overlap [start, end), clip.duration being end - start; without a
\* readable transcript there are none.
ProcessClip ==
    /\ pc = "done"
    /\ outcome = "returned"
    /\ clip_index < Len(boundaries)
    /\ \E ok \in BOOLEAN :
          IF ok
          THEN /\ clips_info' =
                     Append(clips_info,
                            ClipInfo(boundaries[clip_index + 1][1],
                                     boundaries[clip_index + 1][2],
                                     clip_index + 1))
               /\ aligned' =
                     Append(aligned,
                            [clip_number    |-> clip_index + 1,
                             clip_subtitles |->
                                 FilterLoop(_parse_srt_file(srt_readable,
                                                            srt_blocks),
                                            1,
                                            boundaries[clip_index + 1][1],
                                            boundaries[clip_index + 1][2]
                                              - boundaries[clip_index + 1][1],
                                            <<>>)])
               /\ printed' = printed
          ELSE /\ printed' = Append(printed, clip_index + 1)
               /\ clips_info' = clips_info
               /\ aligned' = aligned
    /\ clip_index' = clip_index + 1
    /\ UNCHANGED <<bvars, cvars, result>>

\* the loop is over: video.close() and return clips_info
ReturnClips ==
    /\ pc = "done"
    /\ outcome = "returned"
    /\ clip_index = Len(boundaries)
    /\ result' = clips_info
    /\ pc' = "closed"
    /\ UNCHANGED <<total_duration, min_duration, max_duration, scene_boundaries,
                   audio_readable, non_silent_chunks, boundaries, strategy,
                   outcome>>
    /\ UNCHANGED <<cvars, clip_index, clips_info, printed, aligned>>

Next ==
    \/ SceneStrategy
    \/ SilenceStrategy
    \/ EqualStrategy
    \/ ProcessClip
    \/ ReturnClips

Spec == Init /\ [][Next]_vars

\* "00:00:SS,000" and "00:00:SS,500": the time `half` half-seconds after 0
SrtTime(half) ==
    LET ss == ToDigits(half \div 2)
    IN  <<"0", "0", ":", "0", "0", ":">>
        \o (IF Len(ss) < 2 THEN <<"0">> \o ss ELSE ss)
        \o <<",">>
        \o (IF half % 2 = 0 THEN <<"0", "0", "0">> ELSE <<"5", "0", "0">>)

\* the time stamps of a transcript of a video of `total` seconds: the
\* half-second grid of a short video; 58 s, 59.5 s, 63 s, 1 min and 2 min
\* for the 125 s video
CoverageTokens(total) ==
    IF total <= MaxTotal
    THEN { SrtTime(h) : h \in 0..(2 * Max(total, 0)) }
    ELSE { SrtTime(116), SrtTime(119), SrtTime(126),
           <<"0", "0", ":", "0", "1", ":", "0", "0", ",", "0", "0", "0">>,
           <<"0", "0", ":", "0", "2", ":", "0", "0", ",", "0", "0", "0">> }

\* the transcripts of one entry that ends after it starts, and the empty one
CoverageTranscripts(total) ==
    { <<>> } \cup
    { <<[time_line |-> p[1] \o <<" ", "-", "-", ">", " ">> \o p[2],
         text |-> <<"hello">>]>> :
        p \in { q \in CoverageTokens(total) \X CoverageTokens(total) :
                  _time_to_seconds(q[1]) < _time_to_seconds(q[2]) } }

\* split_video on a video without scene changes and without a readable audio
\* track, with a transcript whose entry lies within the video
InitCoverage ==
    /\ pc = "calc"
    /\ \E d \in DurationInputs :
          /\ total_duration = Sec(d[1])
          /\ min_duration = Sec(d[2])
          /\ max_duration = Sec(d[3])
    /\ scene_boundaries = <<>>
    /\ audio_readable = FALSE
    /\ non_silent_chunks = <<>>
    /\ boundaries = <<>>
    /\ strategy = "none"
    /\ outcome = "none"
    /\ cpc = "idle"
    /\ srt_readable = TRUE
    /\ srt_blocks \in CoverageTranscripts(total_duration \div Unit)
    /\ start_time = 0
    /\ clip_duration = 0
    /\ subtitles = <<>>
    /\ clip_subtitles = <<>>
    /\ caption_style = "standard"
    /\ text_clips = <<>>
    /\ clip_index = 0
    /\ clips_info = <<>>
    /\ printed = <<>>
    /\ result = <<>>
    /\ aligned = <<>>

NextCoverage ==
    \/ EqualStrategy
    \/ ProcessClip
    \/ ReturnClips

SpecCoverage == InitCoverage /\ [][NextCoverage]_vars

\* ----------------------------------------------------------- caption inputs
\* most blocks in a transcript
MaxBlocks == 2

\* "00:00:58,000", "00:01:00,000", "00:01:03,000", "00:02:00,000"
Tok58  == <<"0", "0", ":", "0", "0", ":", "5", "8", ",", "0", "0", "0">>
Tok60  == <<"0", "0", ":", "0", "1", ":", "0", "0", ",", "0", "0", "0">>
Tok63  == <<"0", "0", ":", "0", "1", ":", "0", "3", ",", "0", "0", "0">>
Tok120 == <<"0", "0", ":", "0", "2", ":", "0", "0", ",", "0", "0", "0">>

GoodTokens == {Tok58, Tok60, Tok63, Tok120}

\* "00:01:0x,000", "00:01:03" and "01:03,000"
BadTokens ==
    { <<"0", "0", ":", "0", "1", ":", "0", "x", ",", "0", "0", "0">>,
      <<"0", "0", ":", "0", "1", ":", "0", "3">>,
      <<"0", "1", ":", "0", "3", ",", "0", "0", "0">> }

GoodTimeLines == { a \o Arrow \o b : a \in GoodTokens, b \in GoodTokens }

BadTokenTimeLines ==
    { t \o Arrow \o Tok63 : t \in BadTokens } \cup
    { Tok58 \o Arrow \o t : t \in BadTokens }

\* "00:00:58,000 -> 00:01:03,000" and a line with two arrows
NoArrowTimeLines ==
    { Tok58 \o <<" ", "-", ">", " ">> \o Tok63,
      Tok58 \o Arrow \o Tok60 \o Arrow \o Tok63 }

BlockPool ==
    { [time_line |-> tl, text |-> <<"hello">>] :
        tl \in GoodTimeLines \cup BadTokenTimeLines \cup NoArrowTimeLines }
    \cup
    { [time_line |-> Tok58 \o Arrow \o Tok63, text |-> <<>>],
      [time_line |-> Tok60 \o Arrow \o Tok120, text |-> <<"a", "b">>] }

RECURSIVE Transcripts(_)
Transcripts(n) ==
    IF n = 0 THEN { <<>> }
    ELSE LET shorter == Transcripts(n - 1)
         IN  shorter \cup
             { Append(t, b) : t \in { x \in shorter : Len(x) = n - 1 },
                              b \in BlockPool }

\* <<start, end>> of the clips, in seconds
ClipInputs == { <<0, 60>>, <<60, 120>>, <<0, 120>> }

\* ----------------------------------------------------- _add_captions_to_clip
\* the transcripts of at most n blocks drawn from pool
RECURSIVE TranscriptsOver(_, _)
TranscriptsOver(pool, n) ==
    IF n = 0 THEN { <<>> }
    ELSE LET shorter == TranscriptsOver(pool, n - 1)
         IN  shorter \cup
             { Append(t, b) : t \in { x \in shorter : Len(x) = n - 1 },
                              b \in pool }

\* the blocks of the style runs: two overlapping entries and a disjoint one
StyleBlockPool ==
    { [time_line |-> Tok58 \o Arrow \o Tok63, text |-> <<"hello">>],
      [time_line |-> Tok60 \o Arrow \o Tok120, text |-> <<"a", "b">>],
      [time_line |-> Tok63 \o Arrow \o Tok120, text |-> <<"hello">>] }

\* caption_style as the caller passes it: the four table rows and names that
\* are in no table
StyleNames ==
    {"standard", "minimal", "bold", "outline", "fancy", "Minimal", ""}

\* the state in which _add_captions_to_clip is entered for one clip, with
\* the transcript and the style name among the given ones
CaptionsEntry(transcripts, styles) ==
    /\ pc = "idle"
    /\ total_duration = 0
    /\ min_duration = 0
    /\ max_duration = 0
    /\ scene_boundaries = <<>>
    /\ audio_readable = FALSE
    /\ non_silent_chunks = <<>>
    /\ boundaries = <<>>
    /\ strategy = "none"
    /\ outcome = "none"
    /\ clip_index = 0
    /\ clips_info = <<>>
    /\ printed = <<>>
    /\ result = <<>>
    /\ aligned = <<>>
    /\ cpc = "parse"
    /\ srt_readable \in BOOLEAN
    /\ srt_blocks \in transcripts
    /\ (~srt_readable => srt_blocks = <<>>)
    /\ \E c \in ClipInputs :
          /\ start_time = Sec(c[1])
          /\ clip_duration = Sec(c[2]) - Sec(c[1])
    /\ subtitles = <<>>
    /\ clip_subtitles = <<>>
    /\ caption_style \in styles
    /\ text_clips = <<>>

\* every transcript under the default style
InitCaptions == CaptionsEntry(Transcripts(MaxBlocks), {"standard"})

\* every style name over the transcripts of the style runs
InitStyle == CaptionsEntry(TranscriptsOver(StyleBlockPool, MaxBlocks), StyleNames)

\* subtitles = self._parse_srt_file(subtitle_path)
ParseSrtFile ==
    /\ cpc = "parse"
    /\ subtitles' = _parse_srt_file(srt_readable, srt_blocks)
    /\ cpc' = "filter"
    /\ UNCHANGED <<srt_readable, srt_blocks, start_time, clip_duration,
                   clip_subtitles, caption_style, text_clips>>
    /\ UNCHANGED <<bvars, svars>>

\* the filter loop over the parsed subtitles
FilterSubtitles ==
    /\ cpc = "filter"
    /\ clip_subtitles' = FilterLoop(subtitles, 1, start_time, clip_duration,
                                    <<>>)
    /\ cpc' = "done"
    /\ UNCHANGED <<srt_readable, srt_blocks, start_time, clip_duration,
                   subtitles, caption_style, text_clips>>
    /\ UNCHANGED <<bvars, svars>>

\* the loop that creates one styled text clip per adjusted entry
CreateTextClips ==
    /\ cpc = "done"
    /\ text_clips' =
          [k \in 1..Len(clip_subtitles) |->
              [text         |-> clip_subtitles[k].text,
               fontsize     |-> _get_font_size(caption_style),
               color        |-> _get_text_color(caption_style),
               font         |-> _get_font(caption_style),
               stroke_color |-> _get_stroke_color(caption_style),
               stroke_width |-> _get_stroke_width(caption_style),
               duration     |-> clip_subtitles[k].end - clip_subtitles[k].start,
               start        |-> clip_subtitles[k].start]]
    /\ cpc' = "composed"
    /\ UNCHANGED <<srt_readable, srt_blocks, start_time, clip_duration,
                   subtitles, clip_subtitles, caption_style>>
    /\ UNCHANGED <<bvars, svars>>

NextCaptions == ParseSrtFile \/ FilterSubtitles \/ CreateTextClips

SpecCaptions == InitCaptions /\ [][NextCaptions]_vars

SpecStyle == InitStyle /\ [][NextCaptions]_vars

\* ===================================================== boundary properties
Duration(b) == b[2] - b[1]

ValidWindow == 0 < min_duration /\ min_duration <= max_duration

CalcReturned == pc = "done" /\ outcome = "returned"

\* sorted, starting at 0, gap-free, ending at total
IsPartition(b, total) ==
    /\ Len(b) > 0
    /\ b[1][1] = 0
    /\ \A i \in 1..Len(b) : b[i][1] <= b[i][2]
    /\ \A i \in 1..(Len(b) - 1) : b[i + 1][1] = b[i][2]
    /\ b[Len(b)][2] = total

\* C1: for total_duration > 0 and a window 0 < min <= max, the sequence
\* _calculate_clip_boundaries returns is sorted, starts at 0, is gap-free and
\* ends at exactly total_duration, whatever the signals are.
C1_ReturnedIsPartition ==
    (CalcReturned /\ total_duration > 0 /\ ValidWindow)
        => IsPartition(boundaries, total_duration)

\* C2: whenever total_duration > 0, a sequence returned by
\* _calculate_clip_boundaries is never empty, whatever the signals are.
C2_NeverReturnsEmpty ==
    (CalcReturned /\ total_duration > 0) => boundaries # <<>>

\* C2 witness: a video shorter than min, with chunks too short for the
\* silence strategy, still comes back as the one interval (0, total)
C2_Witness ==
    /\ CalcReturned
    /\ total_duration > 0
    /\ total_duration < min_duration
    /\ non_silent_chunks # <<>>
    /\ strategy = "equal"
    /\ boundaries = << <<0, total_duration>> >>

C4_ContractViolationFailsFast ==
    (pc = "done" /\ (total_duration <= 0 \/ min_duration > max_duration))
        => outcome \notin {"none", "returned"}

\* the walk's final partial step is shorter than min and has a predecessor
TailMerged(total, mn, mx) ==
    LET steps == Ceil(total, mx)
        tail  == total - ((steps - 1) * mx)
    IN  steps > 1 /\ tail < mn

EqualReturned ==
    CalcReturned /\ strategy = "equal" /\ total_duration > 0 /\ ValidWindow

\* C5 as stated: every equal-split interval has duration <= max, and
\* duration >= min except possibly the last one when it results from a merge.
C5_Original ==
    EqualReturned =>
        \A i \in 1..Len(boundaries) :
            /\ Duration(boundaries[i]) <= max_duration
            /\ \/ Duration(boundaries[i]) >= min_duration
               \/ /\ i = Len(boundaries)
                  /\ TailMerged(total_duration, min_duration, max_duration)

\* C5 amended: every equal-split interval has duration <= max except a last
\* interval that results from a merge, which is longer than max and shorter
\* than max + min; every interval has duration >= min except the single
\* interval (0, total) of a video shorter than min.
C5_EqualSplitDurations ==
    EqualReturned =>
        \A i \in 1..Len(boundaries) :
            /\ IF i = Len(boundaries)
                  /\ TailMerged(total_duration, min_duration, max_duration)
               THEN /\ Duration(boundaries[i]) > max_duration
                    /\ Duration(boundaries[i]) < max_duration + min_duration
               ELSE Duration(boundaries[i]) <= max_duration
            /\ \/ Duration(boundaries[i]) >= min_duration
               \/ Len(boundaries) = 1 /\ total_duration < min_duration

\* C5 witness: an equal split whose last interval results from a merge
C5_Witness ==
    /\ EqualReturned
    /\ Len(boundaries) >= 2
    /\ TailMerged(total_duration, min_duration, max_duration)
    /\ Duration(boundaries[Len(boundaries)]) > max_duration

\* the walk in closed form: full steps of mx from 0, the last interval ending
\* at total, the short tail folded into its predecessor
ExpectedEqualSplit(total, mn, mx) ==
    LET steps == Ceil(total, mx)
        n     == IF TailMerged(total, mn, mx) THEN steps - 1 ELSE steps
    IN  [i \in 1..n |-> <<(i - 1) * mx, IF i = n THEN total ELSE i * mx>>]

\* C6: the equal split walks forward from 0 in steps of max and folds a final
\* step shorter than min into the previous interval; for total 125, min 30,
\* max 60 the result is exactly [(0,60),(60,125)].
C6_EqualSplitWalk ==
    EqualReturned =>
        /\ boundaries = ExpectedEqualSplit(total_duration, min_duration,
                                           max_duration)
        /\ (/\ total_duration = Sec(125)
            /\ min_duration = Sec(30)
            /\ max_duration = Sec(60))
               => boundaries = << <<0, Sec(60)>>, <<Sec(60), Sec(125)>> >>

\* C6 witness: the 125 s scenario went through the equal split
C6_Witness ==
    /\ EqualReturned
    /\ total_duration = Sec(125)
    /\ min_duration = Sec(30)
    /\ max_duration = Sec(60)
    /\ Len(boundaries) = 2

\* ====================================================== caption properties
Aligned == cpc = "done"

\* the half-open overlap test of the specification
Overlaps(e) == e.end > start_time /\ e.start < start_time + clip_duration

\* the parsed entries that overlap the clip, in transcript order
Included == SelectSeq(subtitles, Overlaps)

\* C7: every entry the aligner includes has local start
\* max(0, entry.start - clipStart) and local end
\* min(clipDuration, entry.end - clipStart), so no local start is below 0 and
\* no local end above clipDuration; entry (58,63) in clip (60,120) gives (0,3).
C7_ShiftAndClamp ==
    Aligned =>
        /\ Len(clip_subtitles) <= Len(Included)
        /\ \A k \in 1..Len(clip_subtitles) :
              /\ clip_subtitles[k].start = Max(0, Included[k].start - start_time)
              /\ clip_subtitles[k].end =
                     Min(clip_duration, Included[k].end - start_time)
              /\ clip_subtitles[k].start >= 0
              /\ clip_subtitles[k].end <= clip_duration
        /\ (/\ subtitles = <<[start |-> Sec(58), end |-> Sec(63),
                               text |-> "hello"]>>
            /\ start_time = Sec(60)
            /\ clip_duration = Sec(60))
               => clip_subtitles = <<[text |-> "hello", start |-> 0,
                                      end |-> Sec(3)]>>

\* C7 witness: the (58,63) entry aligned against the clip (60,120)
C7_Witness ==
    /\ Aligned
    /\ subtitles = <<[start |-> Sec(58), end |-> Sec(63), text |-> "hello"]>>
    /\ start_time = Sec(60)
    /\ clip_duration = Sec(60)
    /\ Len(clip_subtitles) = 1

\* C8: the aligner's output is exactly the subsequence, in input order, of the
\* entries with end > clipStart and start < clipStart + clipDuration; entries
\* that touch a clip edge or lie outside the clip are excluded.
C8_ExactlyTheOverlapping ==
    Aligned =>
        /\ Len(clip_subtitles) = Len(Included)
        /\ \A k \in 1..Len(Included) :
              /\ clip_subtitles[k].text = Included[k].text
              /\ clip_subtitles[k].start + start_time
                     = Max(start_time, Included[k].start)
              /\ clip_subtitles[k].end + start_time
                     = Min(start_time + clip_duration, Included[k].end)
        /\ Len(clip_subtitles) =
              Cardinality({ k \in 1..Len(subtitles) :
                              ~(\/ subtitles[k].end <= start_time
                                \/ subtitles[k].start
                                      >= start_time + clip_duration) })

\* C8 witness: an entry touching the clip start is left out while a later
\* overlapping entry is kept
C8_Witness ==
    /\ Aligned
    /\ Len(subtitles) = 2
    /\ subtitles[1].start < subtitles[1].end
    /\ subtitles[1].end = start_time
    /\ Overlaps(subtitles[2])
    /\ Len(clip_subtitles) = 1

\* C9: no entry of the aligned output has localEnd <= localStart, whatever
\* entries the parser passes through.
C9_NoEmptyEntry ==
    Aligned =>
        \A k \in 1..Len(clip_subtitles) :
            clip_subtitles[k].end > clip_subtitles[k].start

\* a time token of the form HH:MM:SS,mmm
WellFormedToken(t) ==
    LET hms == Split(t, <<":">>)
    IN  /\ Len(hms) = 3
        /\ IsInt(hms[1])
        /\ IsInt(hms[2])
        /\ LET sms == Split(hms[3], <<",">>)
           IN  Len(sms) = 2 /\ IsInt(sms[1]) /\ IsInt(sms[2])

\* a block with text whose time line is two well-formed tokens and one arrow
WellFormedBlock(b) ==
    /\ NumLines(b) >= 3
    /\ LET parts == Split(b.time_line, Arrow)
       IN  Len(parts) = 2 /\ WellFormedToken(parts[1])
                          /\ WellFormedToken(parts[2])

EntryOf(b) ==
    LET parts == Split(b.time_line, Arrow)
    IN  [start |-> _time_to_seconds(parts[1]),
         end   |-> _time_to_seconds(parts[2]),
         text  |-> Join(b.text)]

RECURSIVE EntriesOf(_)
EntriesOf(blocks) ==
    IF Len(blocks) = 0 THEN <<>>
    ELSE <<EntryOf(Head(blocks))>> \o EntriesOf(Tail(blocks))

\* C10: a block whose timestamp line cannot be parsed is skipped and parsing
\* continues: the result is the entries of the well-formed blocks, in
\* transcript order, and nothing else.
C10_BadBlockSkipped ==
    (cpc # "parse" /\ srt_readable) =>
        subtitles = EntriesOf(SelectSeq(srt_blocks, WellFormedBlock))

\* ======================================================= silence properties
\* C14: every interval the silence strategy returns has duration <= max: an
\* interval emitted directly for a non-silent span lies within [min, max] and
\* a longer span is cut into ceil(duration / max) equal sub-intervals,
\* whatever short spans or silent gaps precede the span.
C14_SilenceWithinMax ==
    (CalcReturned /\ strategy = "silence" /\ total_duration > 0 /\ ValidWindow)
        => \A i \in 1..Len(boundaries) :
               Duration(boundaries[i]) <= max_duration

\* =================================================== split_video properties
Range(seq) == { seq[k] : k \in 1..Len(seq) }

\* the positions of the boundaries whose _create_clip call raised
FailedPositions == Range(printed)

\* C11: a failure of one boundary does not stop the loop; the returned list
\* holds exactly the clips that were written, in ascending boundary order, each
\* with the 1-based position of its boundary as its number, and the failures
\* are collected and reported alongside them in what split_video returns.
C11_FailuresIsolatedAndReported ==
    pc = "closed" =>
        /\ Len(result) + Len(printed) = Len(boundaries)
        /\ { IntValue(result[k].name) : k \in 1..Len(result) }
              = (1..Len(boundaries)) \ FailedPositions
        /\ \A j, k \in 1..Len(result) :
              j < k => IntValue(result[j].name) < IntValue(result[k].name)
        /\ \A n \in FailedPositions :
              \E k \in 1..Len(result) : IntValue(result[k].name) = n

\* ========================================================= style properties
Composed == cpc = "composed"

KnownStyles == {"standard", "minimal", "bold", "outline"}

StyleOf(tc) ==
    <<tc.fontsize, tc.color, tc.font, tc.stroke_color, tc.stroke_width>>

\* C12: a style name outside {standard, minimal, bold, outline} resolves, in
\* all five attributes, to the standard row (28, white, Arial, black, 1), and
\* every resolution of the same name in a run gives the same result.
C12_UnknownIsStandard ==
    Composed =>
        /\ caption_style \notin KnownStyles =>
              \A k \in 1..Len(text_clips) :
                  StyleOf(text_clips[k]) = <<28, "white", "Arial", "black", 1>>
        /\ \A j, k \in 1..Len(text_clips) :
              StyleOf(text_clips[j]) = StyleOf(text_clips[k])

\* C12 witness: two text clips were styled under a name that is in no table
C12_Witness ==
    /\ Composed
    /\ caption_style \notin KnownStyles
    /\ Len(text_clips) >= 2

Parsed == _parse_srt_file(srt_readable, srt_blocks)

\* the time the adjusted entries of one clip are on screen
RECURSIVE LocalTime(_)
LocalTime(subs) ==
    IF Len(subs) = 0 THEN 0
    ELSE (Head(subs).end - Head(subs).start) + LocalTime(Tail(subs))

\* the on-screen time summed over the written clips
RECURSIVE TotalLocalTime(_)
TotalLocalTime(as) ==
    IF Len(as) = 0 THEN 0
    ELSE LocalTime(Head(as).clip_subtitles) + TotalLocalTime(Tail(as))

\* split_video returned equal-split clips, every one of them written, for a
\* transcript of one entry with 0 <= start < end <= total_duration
CoverageCase ==
    /\ pc = "closed"
    /\ strategy = "equal"
    /\ printed = <<>>
    /\ Len(Parsed) = 1
    /\ 0 <= Parsed[1].start
    /\ Parsed[1].start < Parsed[1].end
    /\ Parsed[1].end <= total_duration

\* the clips whose adjusted entries hold the entry
IncludingClips == { k \in 1..Len(aligned) : Len(aligned[k].clip_subtitles) = 1 }

\* C15: over the clips of the equal split of [0, T], an entry with
\* 0 <= start < end <= T is included in exactly the clips it overlaps, and
\* the sum over all clips of (localEnd - localStart) equals end - start.
C15_EntryTimeConserved ==
    CoverageCase =>
        /\ Len(aligned) = Len(boundaries)
        /\ \A k \in 1..Len(aligned) :
              /\ aligned[k].clip_number = k
              /\ Len(aligned[k].clip_subtitles) <= 1
              /\ (k \in IncludingClips) <=>
                     (/\ Parsed[1].end > boundaries[k][1]
                      /\ Parsed[1].start < boundaries[k][2])
        /\ TotalLocalTime(aligned) = Parsed[1].end - Parsed[1].start

\* C15 witness: the entry runs across a cut, so two clips include it, and a
\* third clip does not
C15_Witness ==
    /\ CoverageCase
    /\ Cardinality(IncludingClips) >= 2
    /\ Cardinality(IncludingClips) < Len(aligned)

====
